---- MODULE Spec2Model ----
(***************************************************************************)
(* Running-Log exporter: the resumable state store (core/state.py), the    *)
(* pagination discoverer (core/scrape.py), the export orchestrator         *)
(* (core/orchestrator.py) and the CLI export command that applies the      *)
(* operator resets before a run (cli/typer_main.py).                       *)
(*                                                                         *)
(* One behaviour is a sequence of invocations of the `export` command on   *)
(* one athlete directory.  Inside an invocation the asyncio tasks          *)
(* interleave at their await points only; each action below is one         *)
(* segment of code between two await points.  A hard interruption of the   *)
(* process may happen between any two segments.  The file system is        *)
(* reliable apart from such interruptions.                                 *)
(***************************************************************************)
EXTENDS Integers, Sequences, FiniteSets, TLC

\* ------------------------------------------------------------------ bounds
MaxPages == 2
MaxRuns == 2
MaxConcurrency == 2
SmallSessionCap == 1
\* acquisitions of one limiter, and ticks of the clock that pass with no
\* caller waiting
MaxAcquisitions == 10
MaxIdleTicks == 2
\* rows of the detail table after its header row
MaxRows == 2
\* tasks that call one ExportState, and the calls they make in all
MaxStoreTasks == 2
MaxStoreCalls == 3

\* ------------------------------------------------------- program constants
DefaultMaxPagesToScrapeSession == 1000
StateVersion == 2
\* stop_after_attempt(10) of both fetch helpers
MaxAttempts == 10
\* wait_exponential(multiplier=1, min=15, max=60) + wait_random(0, 5)
WaitMultiplier == 1
WaitMin == 15
WaitMax == 60
JitterMax == 5
\* limiter = RateLimiter(rate=3, per=1.0) of run_full_export
LimiterRate == 3

\* state._lock holders: nobody, the main coroutine, or page task p >= 1
LockFree == -1
MainCoroutine == 0

\* ------------------------------------------------------------- the remote
\* The listing of the remote service: page 1 carries {101,102}, page p > 1
\* carries {101 + p}.
PageWids(p) == IF p = 1 THEN {101, 102} ELSE {101 + p}

AllWids == UNION {PageWids(p) : p \in 1..MaxPages}

WidsOfPages(P) == UNION {PageWids(p) : p \in P}

\* --------------------------------------------------------- pure functions
Max(S) == CHOOSE x \in S : \A y \in S : y <= x

Min(S) == CHOOSE x \in S : \A y \in S : x <= y

Range(s) == {s[i] : i \in 1..Len(s)}

RECURSIVE sorted(_)
\* sorted(list(S)): ascending
sorted(S) == IF S = {} THEN <<>> ELSE <<Min(S)>> \o sorted(S \ {Min(S)})

RECURSIVE sorted_reverse(_)
\* sorted(S, reverse=True): descending
sorted_reverse(S) == IF S = {} THEN <<>> ELSE <<Max(S)>> \o sorted_reverse(S \ {Max(S)})

\* ExportState() with the dataclass defaults; discovered_pages is the
\* attribute the discoverer attaches to the object, it is never persisted.
FreshState == [done_wids |-> {}, processed_workout_list_pages |-> {},
               discovered_wids |-> {}, discovered_pages |-> {},
               version |-> StateVersion]

\* The state file: absent, opened for writing and not yet written (empty or
\* a strict prefix of a document: not valid JSON), or a complete document.
Absent == [kind |-> "absent"]

Truncated == [kind |-> "truncated"]

\* Well-formed JSON that is not a state document: a value that is not an
\* object ([], 5, null) or an object whose set fields are not lists
\* ({"done_wids": 5})
NotADocument == [kind |-> "not_a_document"]

to_dict(s) == [kind |-> "doc",
               done_wids |-> sorted(s.done_wids),
               processed_workout_list_pages |-> sorted(s.processed_workout_list_pages),
               discovered_wids |-> sorted(s.discovered_wids),
               version |-> s.version]

load_drops_discovered(d) ==
    IF d.kind = "doc"
    THEN [done_wids |-> Range(d.done_wids),
          processed_workout_list_pages |-> Range(d.processed_workout_list_pages),
          discovered_wids |-> {},
          discovered_pages |-> {},
          version |-> d.version]
    ELSE FreshState

\* ExportState.load catches json.JSONDecodeError only: data.get on a value
\* that is not an object raises AttributeError, set() of a field that is not
\* iterable raises TypeError, and both leave load
load_raises(d) == d.kind = "not_a_document"

\* ExportState.load: a missing file and a JSONDecodeError give a fresh state
load(d) ==
    IF d.kind = "doc"
    THEN [done_wids |-> Range(d.done_wids),
          processed_workout_list_pages |-> Range(d.processed_workout_list_pages),
          discovered_wids |-> Range(d.discovered_wids),
          discovered_pages |-> {},
          version |-> d.version]
    ELSE FreshState

\* What a completed persist call has acknowledged
Sets(s) == [done_wids |-> s.done_wids,
            processed_workout_list_pages |-> s.processed_workout_list_pages,
            discovered_wids |-> s.discovered_wids]

NoSets == [done_wids |-> {}, processed_workout_list_pages |-> {}, discovered_wids |-> {}]

Contains(a, b) == /\ b.done_wids \subseteq a.done_wids
                  /\ b.processed_workout_list_pages \subseteq a.processed_workout_list_pages
                  /\ b.discovered_wids \subseteq a.discovered_wids

\* ------------------------------------------------------ the fetch helpers
\* What one HTTP attempt meets: a response (its status, and whether it landed
\* on the login page) or an exception raised by client.get
Exc(type, status) == [type |-> type, status |-> status]

NoExc == Exc("none", 0)

Response(status, login) == [kind |-> "response", status |-> status, login |-> login,
                            exc |-> NoExc]

GetRaises(type) == [kind |-> "exception", status |-> 0, login |-> FALSE,
                    exc |-> Exc(type, 0)]

Statuses == {200, 400, 401, 403, 404, 429, 500, 503}

\* httpx.ConnectError and httpx.ReadTimeout are subclasses of httpx.HTTPError;
\* ValueError stands for the exception types the classifiers do not know
GetExceptions == {"ConnectError", "ReadTimeout", "ValueError"}

\* A response whose final URL is the login page can carry any status
AttemptResults == {Response(st, login) : st \in Statuses, login \in BOOLEAN}
                    \cup {GetRaises(t) : t \in GetExceptions}

\* isinstance(exc, (httpx.HTTPError, httpx.ReadTimeout))
IsHTTPError(exc) == exc.type \in {"HTTPStatusError", "ConnectError", "ReadTimeout"}

\* The body of fetch / _fetch: client.get, the redirect-to-login test and
\* resp.raise_for_status(); NoExc when the text is returned
body_raises_for_status_first(r) ==
    IF r.kind = "exception" THEN r.exc
    ELSE IF r.status >= 400 THEN Exc("HTTPStatusError", r.status)
    ELSE IF r.login THEN Exc("HTTPStatusError", 401)
    ELSE NoExc

body(r) ==
    IF r.kind = "exception" THEN r.exc
    ELSE IF r.login THEN Exc("HTTPStatusError", 401)
    ELSE IF r.status >= 400 THEN Exc("HTTPStatusError", r.status)
    ELSE NoExc

should_retry_auth_too(exc) ==
    IF exc.type = "HTTPStatusError"
    THEN exc.status = 401 \/ exc.status = 403 \/ exc.status = 429 \/ exc.status >= 500
    ELSE IsHTTPError(exc)

\* utils.http_client._should_retry_fetch
should_retry_fetch(exc) ==
    IF exc.type = "HTTPStatusError"
    THEN IF exc.status \in {401, 403} THEN FALSE
         ELSE IF exc.status = 429 \/ exc.status >= 500 THEN TRUE
         ELSE FALSE
    ELSE IsHTTPError(exc)

\* core.http._should_retry_fetch: the branch of the other client errors logs
\* and does not return, so the isinstance test that follows decides
core_should_retry_fetch(exc) ==
    IF exc.type = "HTTPStatusError" /\ exc.status \in {401, 403} THEN FALSE
    ELSE IF exc.type = "HTTPStatusError" /\ (exc.status = 429 \/ exc.status >= 500) THEN TRUE
    ELSE IsHTTPError(exc)

Helpers == {"fetch", "_fetch"}

\* retry=retry_if_exception(...) of the helper
retry(helper, exc) ==
    IF helper = "fetch" THEN should_retry_fetch(exc) ELSE core_should_retry_fetch(exc)

stop_after_first_attempt(attempt_number) == attempt_number >= 1

\* stop=stop_after_attempt(10)
stop(attempt_number) == attempt_number >= MaxAttempts

\* _log_final_retry_error logs and returns nothing
log_final_retry_error(exc) == "None"

wait_exponential_unclamped(attempt_number) == WaitMultiplier * 2 ^ (attempt_number - 1)

\* tenacity's wait_exponential: multiplier * 2^(attempt_number - 1), at most
\* max, at least min
wait_exponential(attempt_number) ==
    Max({WaitMin, Min({WaitMultiplier * 2 ^ (attempt_number - 1), WaitMax})})

\* wait_random(0, 5), in whole seconds
wait_random == 0..JitterMax

\* The places that issue a request through fetch: scrape_workout (a detail
\* page), the first listing page, a further listing page, and the session
\* check of the command line
Callers == {"scrape_workout", "scrape_all_wids_from_workout_list_pages",
            "fetch_and_process_page", "typer_main"}

\* The limiters whose acquire() the caller awaits before fetch runs:
\* scrape_workout calls fetch itself; the first listing page goes through
\* get_with_rate_limit with the limiter run_full_export made; a further
\* listing page awaits page_rate_limiter.acquire() and then goes through
\* get_with_rate_limit with that same limiter of run_full_export; the command
\* line passes no limiter
limiters_acquired(caller) ==
    CASE caller = "scrape_workout" -> {}
      [] caller = "scrape_all_wids_from_workout_list_pages" -> {"rate_limiter"}
      [] caller = "fetch_and_process_page" -> {"page_rate_limiter", "rate_limiter"}
      [] OTHER -> {}

NoCall == [helper |-> "none", pc |-> "idle", attempt_number |-> 0, sleeps |-> 0,
           exc |-> NoExc, value |-> "none", login |-> FALSE, caller |-> "none",
           acquired |-> {}, waits |-> <<>>, jitter |-> 0, status_code |-> 0]

\* ---------------------------------------------------------- RateLimiter
\* The clock counts ticks of per / rate seconds: a tick refills one token,
\* and `per` seconds are `rate` ticks.
\* __init__: tokens = rate, last_update = time.monotonic()
NewBucket == [rate |-> LimiterRate, tokens |-> LimiterRate, last_update |-> 0,
              now |-> 0, pc |-> "free", sleep |-> 0, completed |-> <<>>, idle |-> 0]

\* min(rate, tokens + time_passed * (rate / per))
refill(b) == Min({b.rate, b.tokens + (b.now - b.last_update)})

\* ------------------------------------------------- the detail page parser
\* The text of a distance cell: empty, or a first word that float() takes
\* or refuses, and a unit word
EmptyText == [empty |-> TRUE, number |-> FALSE, val |-> 0, unit |-> "", parts |-> <<>>]

DistText(number, val, unit) ==
    [empty |-> FALSE, number |-> number, val |-> val, unit |-> unit, parts |-> <<>>]

DistTexts == {EmptyText, DistText(FALSE, 0, ""), DistText(TRUE, 0, "miles"),
              DistText(TRUE, 3, "miles"), DistText(TRUE, 5, "kilometers")}

\* The text of a duration cell: empty, or its parts between colons, which
\* int() takes or refuses
DurText(number, parts) ==
    [empty |-> FALSE, number |-> number, val |-> 0, unit |-> "", parts |-> parts]

DurTexts == {EmptyText, DurText(TRUE, <<0, 0>>), DurText(TRUE, <<25, 30>>),
             DurText(TRUE, <<1, 2, 3>>), DurText(TRUE, <<45>>)}

\* Distances are kept in units of 1/160934 mile (a centimetre), so that
\* val / 1609.34 and val / 1.60934 miles are whole numbers of units
UnitsPerMile == 160934

\* lines 201-219: `"meter" in unit` is tested first and holds of
\* "kilometers" too; ValueError and IndexError give 0.0
miles(dist_txt) ==
    IF dist_txt.empty \/ ~dist_txt.number THEN 0
    ELSE IF dist_txt.unit \in {"meter", "meters", "kilometer", "kilometers"}
    THEN dist_txt.val * 100
    ELSE IF dist_txt.unit \in {"km", "kms"}
    THEN dist_txt.val * 100000
    ELSE dist_txt.val * UnitsPerMile

\* _parse_time: HH:MM:SS or MM:SS into seconds, anything else 0
parse_time(txt) ==
    IF txt.empty \/ ~txt.number THEN 0
    ELSE IF Len(txt.parts) = 3
    THEN txt.parts[1] * 3600 + txt.parts[2] * 60 + txt.parts[3]
    ELSE IF Len(txt.parts) = 2
    THEN txt.parts[1] * 60 + txt.parts[2]
    ELSE 0

\* A row of the table after the header: whether it sits in <tfoot>, how
\* many cells it has, and its first two cells
Row(tfoot, cols, dist_txt, dur_txt) ==
    [tfoot |-> tfoot, cols |-> cols, dist_txt |-> dist_txt, dur_txt |-> dur_txt]

Rows == {Row(FALSE, 5, d, t) : d \in DistTexts, t \in DurTexts}
          \cup {Row(TRUE, 5, DistText(TRUE, 3, "miles"), DurText(TRUE, <<25, 30>>))}
          \cup {Row(FALSE, 1, DistText(TRUE, 3, "miles"), EmptyText)}

\* What follows "Exercise Type:" in a paragraph of the page; "None" when no
\* paragraph starts with it
ExerciseTypes == {"None", "Running", "Swimming"}

WorkoutSegment(distance_miles, duration_seconds) ==
    [distance_miles |-> distance_miles, duration_seconds |-> duration_seconds]

skip_segment_without_distance(m, secs) == m = 0

\* line 224: a row is skipped when both its miles and its seconds are 0
skip_segment(m, secs) == m = 0 /\ secs = 0

\* lines 193-242: the rows in <tfoot> and the rows of fewer than two cells
\* are passed over, the others give a segment unless skip_segment holds
yields_segment(row) ==
    /\ ~row.tfoot
    /\ row.cols >= 2
    /\ ~skip_segment(miles(row.dist_txt), parse_time(row.dur_txt))

RECURSIVE segments_of(_)
segments_of(rows) ==
    IF rows = <<>> THEN <<>>
    ELSE LET rest == segments_of(Tail(rows))
             row == Head(rows)
         IN IF yields_segment(row)
            THEN <<WorkoutSegment(miles(row.dist_txt), parse_time(row.dur_txt))>> \o rest
            ELSE rest

RECURSIVE sum(_, _)
sum(segs, field) ==
    IF segs = <<>> THEN 0 ELSE Head(segs)[field] + sum(Tail(segs), field)

\* the sport names write_tcx knows (core/export.py)
SportTypes == {"Running", "Biking", "Other"}

NoWorkout == [exercise_type |-> "None", segments |-> <<>>,
              total_distance_miles |-> 0, total_duration_seconds |-> 0]

\* scrape_workout after the fetch: parse_workout_date raises ValueError on a
\* date that does not match; the segments are parsed, a record without one
\* gets one segment of 0 miles and 0 seconds; Workout(...) validates its
\* fields, and exercise_type is a required str
parse_workout(page) ==
    IF ~page.date_ok
    THEN [raised |-> TRUE, error |-> "ValueError", workout |-> NoWorkout]
    ELSE LET yielded == IF page.has_table THEN segments_of(page.rows) ELSE <<>>
             segments == IF yielded = <<>> THEN <<WorkoutSegment(0, 0)>> ELSE yielded
         IN IF page.exercise_type = "None"
            THEN [raised |-> TRUE, error |-> "ValidationError", workout |-> NoWorkout]
            ELSE [raised |-> FALSE, error |-> "None",
                  workout |-> [exercise_type |-> page.exercise_type,
                               segments |-> segments,
                               total_distance_miles |-> sum(segments, "distance_miles"),
                               total_duration_seconds |-> sum(segments, "duration_seconds")]]

\* A detail page: whether the date paragraph matches the pattern, the
\* exercise type, and the table of class "content" with its rows
NoPage == [date_ok |-> FALSE, exercise_type |-> "None", has_table |-> FALSE, rows |-> <<>>]

NoParse == [pc |-> "idle", page |-> NoPage, out |-> parse_workout(NoPage)]

\* ------------------------------------------- calls on one ExportState
\* The tasks that call the store, and the calls they make: save(),
\* mark_done(wid), add_discovered(wids), and the processing step of listing
\* page p, which changes the sets of the object itself and then awaits save()
StoreTasks == 1..MaxStoreTasks

StoreCallOf(name, arg) == [name |-> name, arg |-> arg]

StoreCalls == {StoreCallOf("save", {}),
               StoreCallOf("mark_done", {101}), StoreCallOf("mark_done", {102}),
               StoreCallOf("add_discovered", {101, 102}),
               StoreCallOf("add_discovered", {103}),
               StoreCallOf("page", {1}), StoreCallOf("page", {2})}

NoOp == [name |-> "none", arg |-> {}, pc |-> "idle"]

NoOps == [task |-> [t \in StoreTasks |-> NoOp], waiters |-> <<>>, calls |-> 0]

can_acquire_always(holder, waiters) == TRUE

\* `async with self._lock`: asyncio.Lock.acquire returns at once when the
\* lock is not held and nobody waits for it, else the caller queues
can_acquire(holder, waiters) == holder = LockFree /\ waiters = <<>>

mutate_nothing(s, name, arg) == s

\* the change mark_done and add_discovered make once they hold the lock
mutate(s, name, arg) ==
    IF name = "mark_done" THEN [s EXCEPT !.done_wids = @ \cup arg]
    ELSE IF name = "add_discovered" THEN [s EXCEPT !.discovered_wids = @ \cup arg]
    ELSE s

\* ------------------------------------------------------------------ state
VARIABLES
    disk,            \* the state file
    files,           \* output artifacts: set of [wid, ext]
    state,           \* the ExportState object of the running process
    pc,              \* position of the main coroutine
    concurrency,     \* --concurrency of the running invocation
    MAX_PAGES_TO_SCRAPE_SESSION,   \* get_config("max_pages_to_scrape_session")
    max_page_num,    \* page count the listing's pagination controls show
    task,            \* page number -> position of fetch_and_process_page
    lock,            \* holder of state._lock
    pages_scraped_this_call,
    pending,         \* run_full_export's pending list
    results,         \* run_full_export's results list
    summary,         \* what the last invocation returned
    runs,            \* invocations started
    acked,           \* sets written by the persist calls that have returned
    loaded,          \* sets of the state run_full_export loaded
    done_at_pending, \* done_wids when pending was computed
    first_page,      \* how the request for listing page 1 ended
    rerun,           \* this invocation applies no reset and follows one that
                     \* returned its summary with every listing page processed
    at_start,        \* sets of the state file when the invocation began
                     \* (after the deletions of --force)
    refresh_wids_list,   \* --refresh-wids, while the refresh branch runs
    resumed,         \* this invocation applies no reset and follows one that
                     \* was interrupted in its export loop after a task
                     \* had returned
    call,            \* one call of a fetch helper (FetchSpec)
    bucket,          \* one RateLimiter and its clock (LimiterSpec)
    parsed,          \* one detail page and what scrape_workout made of it
                     \* (ParseSpec)
    op               \* the calls tasks make on one ExportState (StoreSpec)

vars == <<disk, files, state, pc, concurrency, MAX_PAGES_TO_SCRAPE_SESSION,
          max_page_num, task, lock, pages_scraped_this_call, pending, results,
          summary, runs, acked, loaded, done_at_pending, first_page, rerun,
          at_start, refresh_wids_list, resumed, call, bucket, parsed, op>>

Pages == 1..MaxPages

NoTasks == [p \in Pages |-> "none"]

NoSummary == [status |-> "none", exported |-> <<>>, failed |-> <<>>, total |-> 0]

\* The state files an earlier invocation may have left: the pages processed
\* so far with their identifiers, and any subset of them completed.
InitialDocs ==
    {to_dict([done_wids |-> D, processed_workout_list_pages |-> P,
              discovered_wids |-> WidsOfPages(P), discovered_pages |-> {},
              version |-> StateVersion]) :
        <<P, D>> \in {pd \in (SUBSET Pages) \X (SUBSET AllWids) :
                        pd[2] \subseteq WidsOfPages(pd[1])}}

Tcx(w) == [wid |-> w, ext |-> "tcx"]

Init ==
    /\ disk \in {Absent, NotADocument} \cup InitialDocs
    /\ files = {Tcx(w) : w \in load(disk).done_wids}
    /\ state = FreshState
    /\ pc = "stopped"
    /\ concurrency = 1
    /\ MAX_PAGES_TO_SCRAPE_SESSION \in {SmallSessionCap, DefaultMaxPagesToScrapeSession}
    /\ max_page_num \in 1..MaxPages
    /\ task = NoTasks
    /\ lock = LockFree
    /\ pages_scraped_this_call = 0
    /\ pending = <<>>
    /\ results = <<>>
    /\ summary = NoSummary
    /\ runs = 0
    /\ acked = Sets(load(disk))
    /\ loaded = NoSets
    /\ done_at_pending = {}
    /\ first_page = "none"
    /\ rerun = FALSE
    /\ at_start = NoSets
    /\ refresh_wids_list = {}
    /\ resumed = FALSE
    /\ call = NoCall
    /\ bucket = NewBucket
    /\ parsed = NoParse
    /\ op = NoOps


\* ------------------------------------------------ the export CLI command
\* --refresh-wids: absent, one identifier, or two identifiers
RefreshWidsChoices == {{}, {102}, {101, 103}}

\* --force: every *.json file of the output directory and the state file
ForceFiles(F) == {f \in F : f.ext # "json"}

\* --refresh-wids: the files matching *wid{wid}.json, --refresh-all: *.json
RefreshFiles(F, refresh_wids) ==
    IF refresh_wids # {}
    THEN {f \in F : ~(f.ext = "json" /\ f.wid \in refresh_wids)}
    ELSE {f \in F : f.ext # "json"}

refresh_clears_pages(s, refresh_wids) ==
    IF refresh_wids # {}
    THEN [s EXCEPT !.done_wids = @ \ refresh_wids]
    ELSE [s EXCEPT !.done_wids = {}, !.processed_workout_list_pages = {}]

\* the state_to_update of the refresh branch after its removals
refresh(s, refresh_wids) ==
    IF refresh_wids # {}
    THEN [s EXCEPT !.done_wids = @ \ refresh_wids]
    ELSE [s EXCEPT !.done_wids = {}]

ResetLocals ==
    /\ task' = NoTasks
    /\ pages_scraped_this_call' = 0
    /\ pending' = <<>>
    /\ results' = <<>>
    /\ done_at_pending' = {}
    /\ first_page' = "none"

\* export(): the options are read, --force deletes, and either the refresh
\* branch loads the state and starts its save, or run_full_export loads the
\* state and starts its first save.  An exception that leaves
\* ExportState.load leaves export() too and ends the invocation.
CliExport(force, refresh_all, refresh_wids, conc) ==
    /\ pc = "stopped"
    /\ runs < MaxRuns
    /\ runs' = runs + 1
    /\ concurrency' = conc
    /\ rerun' = (/\ ~force /\ ~refresh_all /\ refresh_wids = {}
                 /\ summary.status \in {"ok", "empty"}
                 /\ (1..max_page_num) \subseteq state.processed_workout_list_pages)
    /\ resumed' = (/\ ~force /\ ~refresh_all /\ refresh_wids = {}
                   /\ summary.status = "interrupted_in_export")
    /\ ResetLocals
    /\ lock' = LockFree
    /\ LET disk1 == IF force THEN Absent ELSE disk
           files1 == IF force THEN ForceFiles(files) ELSE files
           acked1 == IF force THEN NoSets ELSE acked
       IN /\ disk' = disk1
          /\ acked' = acked1
          /\ IF load_raises(disk1)
             THEN /\ state' = FreshState
                  /\ files' = files1
                  /\ loaded' = NoSets
                  /\ at_start' = NoSets
                  /\ refresh_wids_list' = {}
                  /\ summary' = [NoSummary EXCEPT !.status = "load_raised"]
                  /\ pc' = "stopped"
             ELSE /\ at_start' = Sets(load(disk1))
                  /\ summary' = NoSummary
                  /\ IF (refresh_all \/ refresh_wids # {}) /\ disk1.kind # "absent"
                     THEN /\ state' = refresh(load(disk1), refresh_wids)
                          /\ files' = RefreshFiles(files1, refresh_wids)
                          /\ loaded' = NoSets
                          /\ refresh_wids_list' = refresh_wids
                          /\ pc' = "reset_save"
                     ELSE /\ state' = load(disk1)
                          /\ files' = files1
                          /\ loaded' = Sets(load(disk1))
                          /\ refresh_wids_list' = {}
                          /\ pc' = "init_save"
    /\ UNCHANGED <<MAX_PAGES_TO_SCRAPE_SESSION, max_page_num, call, bucket, parsed, op>>

\* ------------------------------------------------------ persisting state
MainSavePcs == {"reset_save", "init_save", "post_save", "mark_save", "final_save"}

lock_kept(holder) == holder

\* leaving `async with self._lock` releases the lock
release(holder) == LockFree

\* _save_content, first half: aiofiles.open(path, "w") truncates the file.
\* The caller holds state._lock: save takes it on its way in, mark_done took
\* it before it added the identifier.
SaveOpen ==
    /\ pc \in MainSavePcs
    /\ lock = IF pc = "mark_save" THEN MainCoroutine ELSE LockFree
    /\ lock' = MainCoroutine
    /\ disk' = Truncated
    /\ UNCHANGED <<files, state, pc, concurrency, MAX_PAGES_TO_SCRAPE_SESSION,
                   max_page_num, task, pages_scraped_this_call, pending, results,
                   summary, runs, acked, loaded, done_at_pending, first_page,
                   rerun,
                   at_start, refresh_wids_list, resumed,
                   call, bucket, parsed, op>>

\* sorted(set(discovered) - state.done_wids, reverse=True)
pending_all_discovered(s) == sorted_reverse(s.discovered_wids)

pending_ascending(s) == sorted(s.discovered_wids \ s.done_wids)

Pending(s) == sorted_reverse(s.discovered_wids \ s.done_wids)

summary_without_failed(rs, pend) ==
    LET ok == SelectSeq(rs, LAMBDA r : r.status = "ok")
    IN [status |-> "ok", exported |-> [i \in 1..Len(ok) |-> ok[i].wid],
        failed |-> <<>>, total |-> Len(pend)]

\* the summary run_full_export returns after the export loop
Summarize(rs, pend) ==
    LET ok == SelectSeq(rs, LAMBDA r : r.status = "ok")
        bad == SelectSeq(rs, LAMBDA r : r.status # "ok")
    IN [status |-> "ok",
        exported |-> [i \in 1..Len(ok) |-> ok[i].wid],
        failed |-> [i \in 1..Len(bad) |-> [wid |-> bad[i].wid, error |-> bad[i].error]],
        total |-> Len(pend)]

\* _save_content, second half: the document is written and the file closed;
\* the persist call returns and the main coroutine goes on.
SaveWrite ==
    /\ pc \in MainSavePcs
    /\ lock = MainCoroutine
    /\ lock' = release(lock)
    /\ disk' = to_dict(state)
    /\ acked' = Sets(state)
    /\ CASE pc = "reset_save" ->
              \* run_full_export loads the file just written
              /\ state' = load(to_dict(state))
              /\ loaded' = Sets(load(to_dict(state)))
              /\ pc' = "init_save"
              /\ UNCHANGED <<pending, results, summary, done_at_pending>>
         [] pc = "init_save" ->
              /\ pc' = "first_page"
              /\ UNCHANGED <<state, loaded, pending, results, summary, done_at_pending>>
         [] pc = "post_save" ->
              /\ pending' = Pending(state)
              /\ done_at_pending' = state.done_wids
              /\ IF Pending(state) = <<>>
                 THEN /\ pc' = "stopped"
                      /\ summary' = [NoSummary EXCEPT !.status = "empty"]
                 ELSE /\ pc' = "exporting"
                      /\ summary' = summary
              /\ UNCHANGED <<state, loaded, results>>
         [] pc = "mark_save" ->
              /\ pc' = IF Len(results) = Len(pending) THEN "final_save" ELSE "exporting"
              /\ UNCHANGED <<state, loaded, pending, results, summary, done_at_pending>>
         [] pc = "final_save" ->
              /\ pc' = "stopped"
              /\ summary' = Summarize(results, pending)
              /\ UNCHANGED <<state, loaded, pending, results, done_at_pending>>
    /\ refresh_wids_list' = IF pc = "reset_save" THEN {} ELSE refresh_wids_list
    /\ UNCHANGED <<files, concurrency, MAX_PAGES_TO_SCRAPE_SESSION, max_page_num,
                   task, pages_scraped_this_call, runs, first_page, rerun,
                   at_start, resumed,
                   call, bucket, parsed, op>>


\* ------------------------------------------------------------- discovery
FirstPageOutcomes == {"ok", "fetch_failed", "no_pagination"}

PageOutcomes == {"ok", "http_404", "error"}

Terminal == {"done", "capped", "skipped_404", "failed"}

InSemaphore == {"fetching", "merged", "saving"}

first_page_error_swallowed(outcome) == FALSE

\* lines 301-327: a failed fetch of page 1 and a page 1 without pagination
\* links both end in RuntimeError
first_page_raises(outcome) == outcome # "ok"

missing_pages_all(s, n) == 1..n

\* expected_pages - (state.discovered_pages | state.processed_workout_list_pages)
missing_pages(s, n) == (1..n) \ (s.discovered_pages \cup s.processed_workout_list_pages)

\* The fetch of page 1 returns or fails.  A RuntimeError leaves
\* run_full_export through its finally clause and ends the invocation.
FirstPage(outcome) ==
    /\ pc = "first_page"
    /\ first_page' = outcome
    /\ IF first_page_raises(outcome)
       THEN /\ pc' = "stopped"
            /\ summary' = [NoSummary EXCEPT !.status = "fatal"]
            /\ UNCHANGED <<task, pages_scraped_this_call>>
       ELSE /\ pc' = "gather"
            /\ task' = [p \in Pages |->
                          IF p \in missing_pages(state, max_page_num)
                          THEN "queued" ELSE "none"]
            /\ pages_scraped_this_call' = 0
            /\ summary' = summary
    /\ UNCHANGED <<disk, files, state, concurrency, MAX_PAGES_TO_SCRAPE_SESSION,
                   max_page_num, lock, pending, results, runs, acked, loaded,
                   done_at_pending, rerun,
                   at_start, refresh_wids_list, resumed,
                   call, bucket, parsed, op>>

Queued == {p \in Pages : task[p] = "queued"}

InFlight == {p \in Pages : task[p] \in InSemaphore}

\* fetch_and_process_page enters the semaphore (its waiters are served in
\* the order of pages_to_fetch) and checks the session cap.
PageEnter(p) ==
    /\ pc = "gather"
    /\ task[p] = "queued"
    /\ p = Min(Queued)
    /\ Cardinality(InFlight) < concurrency
    /\ task' = [task EXCEPT ![p] =
                  IF pages_scraped_this_call >= MAX_PAGES_TO_SCRAPE_SESSION
                  THEN "capped" ELSE "fetching"]
    /\ UNCHANGED <<disk, files, state, pc, concurrency, MAX_PAGES_TO_SCRAPE_SESSION,
                   max_page_num, lock, pages_scraped_this_call, pending, results,
                   summary, runs, acked, loaded, done_at_pending, first_page,
                   rerun,
                   at_start, refresh_wids_list, resumed,
                   call, bucket, parsed, op>>

merge_page_overwrites(s, p) ==
    [s EXCEPT !.discovered_wids = PageWids(p),
              !.discovered_pages = @ \cup {p},
              !.processed_workout_list_pages = @ \cup {p}]

\* lines 400-434: the identifiers of the page are added to discovered_wids and
\* the page to discovered_pages and processed_workout_list_pages
merge_page(s, p) ==
    [s EXCEPT !.discovered_wids = @ \cup PageWids(p),
              !.discovered_pages = @ \cup {p},
              !.processed_workout_list_pages = @ \cup {p}]

page_error_marks_page(s, p) == [s EXCEPT !.processed_workout_list_pages = @ \cup {p}]

\* lines 462-488: the except clauses log, update the progress display and
\* return; the lines that record the page were not reached
page_error(s, p) == s

\* The fetch of a listing page returns or fails; on success the page is
\* merged in memory and the task goes on to await state.save().
PageFetched(p, outcome) ==
    /\ pc = "gather"
    /\ task[p] = "fetching"
    /\ IF outcome = "ok"
       THEN /\ state' = merge_page(state, p)
            /\ task' = [task EXCEPT ![p] = "merged"]
       ELSE /\ state' = page_error(state, p)
            /\ task' = [task EXCEPT ![p] =
                          IF outcome = "http_404" /\ p > 1 THEN "skipped_404" ELSE "failed"]
    /\ UNCHANGED <<disk, files, pc, concurrency, MAX_PAGES_TO_SCRAPE_SESSION,
                   max_page_num, lock, pages_scraped_this_call, pending, results,
                   summary, runs, acked, loaded, done_at_pending, first_page,
                   rerun,
                   at_start, refresh_wids_list, resumed,
                   call, bucket, parsed, op>>

\* state.save() of a page task: the lock is taken and the file opened
PageSaveOpen(p) ==
    /\ pc = "gather"
    /\ task[p] = "merged"
    /\ lock = LockFree
    /\ lock' = p
    /\ disk' = Truncated
    /\ task' = [task EXCEPT ![p] = "saving"]
    /\ UNCHANGED <<files, state, pc, concurrency, MAX_PAGES_TO_SCRAPE_SESSION,
                   max_page_num, pages_scraped_this_call, pending, results,
                   summary, runs, acked, loaded, done_at_pending, first_page,
                   rerun,
                   at_start, refresh_wids_list, resumed,
                   call, bucket, parsed, op>>

\* state.save() of a page task returns; pages_scraped_this_call is counted
\* and the semaphore released
PageSaveWrite(p) ==
    /\ pc = "gather"
    /\ task[p] = "saving"
    /\ lock = p
    /\ lock' = release(lock)
    /\ disk' = to_dict(state)
    /\ acked' = [acked EXCEPT !.processed_workout_list_pages = @ \cup {p},
                              !.discovered_wids = @ \cup PageWids(p)]
    /\ pages_scraped_this_call' = pages_scraped_this_call + 1
    /\ task' = [task EXCEPT ![p] = "done"]
    /\ UNCHANGED <<files, state, pc, concurrency, MAX_PAGES_TO_SCRAPE_SESSION,
                   max_page_num, pending, results, summary, runs, loaded,
                   done_at_pending, first_page, rerun,
                   at_start, refresh_wids_list, resumed,
                   call, bucket, parsed, op>>

gather_ends_on_first_failure(t) ==
    \/ \A p \in Pages : t[p] \in Terminal \cup {"none"}
    \/ \E p \in Pages : t[p] \in {"failed", "skipped_404"}

\* await asyncio.gather(*tasks): every page task has returned (a page task
\* returns from its except clauses, it raises nothing)
gather_returns(t) == \A p \in Pages : t[p] \in Terminal \cup {"none"}

\* asyncio.gather returns; discover returns state.discovered_wids and
\* run_full_export calls state.save()
GatherDone ==
    /\ pc = "gather"
    /\ gather_returns(task)
    /\ pc' = "post_save"
    /\ UNCHANGED <<disk, files, state, concurrency, MAX_PAGES_TO_SCRAPE_SESSION,
                   max_page_num, task, lock, pages_scraped_this_call, pending,
                   results, summary, runs, acked, loaded, done_at_pending, first_page,
                   rerun,
                   at_start, refresh_wids_list, resumed,
                   call, bucket, parsed, op>>

\* ---------------------------------------------------------------- export
\* scrape_workout is a coroutine function: calling it gives a coroutine
scrape_workout(wid) == [kind |-> "coroutine", wid |-> wid]

\* `async for` over an object: only an asynchronous iterator is iterated
async_for(obj) ==
    IF obj.kind = "async_generator"
    THEN [raised |-> FALSE, items |-> obj.items, error |-> "None"]
    ELSE [raised |-> TRUE, items |-> <<>>,
          error |-> "'async for' requires an object with __aiter__ method, got coroutine"]

run_one_wid_propagates(wid) ==
    [status |-> "error", wid |-> wid, error |-> async_for(scrape_workout(wid)).error,
     files |-> {}, raised |-> async_for(scrape_workout(wid)).raised]

\* run_one_wid: the segments are collected, one file is written per segment,
\* and any exception becomes a result of status "error"
run_one_wid(wid) ==
    LET it == async_for(scrape_workout(wid))
    IN IF it.raised
       THEN [status |-> "error", wid |-> wid, error |-> it.error, files |-> {},
             raised |-> FALSE]
       ELSE IF it.items = <<>>
            THEN [status |-> "empty", wid |-> wid, error |-> "None", files |-> {},
                  raised |-> FALSE]
            ELSE [status |-> "ok", wid |-> wid, error |-> "None",
                  files |-> {Tcx(wid)}, raised |-> FALSE]

worker_marks_always(r) == TRUE

\* worker: mark_done is called for a result of status "ok"
worker_marks(r) == r.status = "ok"

workers_started_at_once(finished, total) == total

\* `results.append(await worker(wid, idx))`: the loop makes the worker of the
\* next pending identifier only when the one before has returned, so with
\* `finished` workers returned and more pending, finished + 1 were started
workers_started(finished, total) == Min({finished + 1, total})

\* worker tasks inside `async with sem`: started and not yet returned (a
\* worker whose mark_done is persisting has not returned)
in_flight ==
    IF pc = "exporting" THEN workers_started(Len(results), Len(pending)) - Len(results)
    ELSE IF pc = "mark_save" THEN 1
    ELSE 0

\* One turn of the export loop: worker(wid, idx) runs run_one_wid and, for
\* an "ok" result, mark_done takes state._lock (nobody else holds it: the page
\* tasks have all returned), adds the identifier and starts its persist.
\* An exception that left run_one_wid would leave worker and
\* run_full_export too.
ExportOne ==
    /\ pc = "exporting"
    /\ Len(results) < Len(pending)
    /\ LET wid == pending[Len(results) + 1]
           r == run_one_wid(wid)
       IN IF r.raised
          THEN /\ pc' = "stopped"
               /\ summary' = [NoSummary EXCEPT !.status = "raised"]
               /\ UNCHANGED <<results, files, state, lock>>
          ELSE /\ results' = Append(results, r)
               /\ files' = files \cup r.files
               /\ summary' = summary
               /\ IF worker_marks(r)
                  THEN /\ lock' = MainCoroutine
                       /\ state' = [state EXCEPT !.done_wids = @ \cup {wid}]
                       /\ pc' = "mark_save"
                  ELSE /\ lock' = lock
                       /\ state' = state
                       /\ pc' = IF Len(results) + 1 = Len(pending)
                                THEN "final_save" ELSE "exporting"
    /\ UNCHANGED <<disk, concurrency, MAX_PAGES_TO_SCRAPE_SESSION, max_page_num,
                   task, pages_scraped_this_call, pending, runs,
                   acked, loaded, done_at_pending, first_page, rerun,
                   at_start, refresh_wids_list, resumed,
                   call, bucket, parsed, op>>

\* ---------------------------------------------------------- interruption
\* positions of run_full_export inside and right after its export loop
ExportPcs == {"exporting", "mark_save", "final_save"}

ResultWids(rs) == {rs[i].wid : i \in 1..Len(rs)}

\* The process is killed between two segments: its memory is gone (with it
\* what the invocation had loaded and what it knew of the one before it), the
\* state file and the artifacts stay as they are.
Interrupt ==
    /\ pc # "stopped"
    /\ pc' = "stopped"
    /\ state' = FreshState
    /\ lock' = LockFree
    /\ summary' = [NoSummary EXCEPT !.status =
                      IF pc \in ExportPcs /\ results # <<>>
                      THEN "interrupted_in_export" ELSE "interrupted"]
    /\ ResetLocals
    /\ refresh_wids_list' = {}
    /\ loaded' = NoSets
    /\ at_start' = NoSets
    /\ rerun' = FALSE
    /\ resumed' = FALSE
    /\ UNCHANGED <<disk, files, concurrency, MAX_PAGES_TO_SCRAPE_SESSION,
                   max_page_num, runs, acked,
                   call, bucket, parsed, op>>

\* ------------------------------------------------------- one fetch call
export_vars == <<disk, files, state, pc, concurrency, MAX_PAGES_TO_SCRAPE_SESSION,
                 max_page_num, task, lock, pages_scraped_this_call, pending,
                 results, summary, runs, acked, loaded, done_at_pending,
                 first_page, rerun, at_start, refresh_wids_list, resumed>>

\* A caller awaits its limiters and then fetch(client, url); nothing in the
\* package calls _fetch(client, url)
FetchCall(helper, caller) ==
    /\ call.pc \in {"idle", "returned", "raised"}
    /\ (helper = "fetch") = (caller \in Callers)
    /\ call' = [NoCall EXCEPT !.helper = helper, !.pc = "attempt", !.attempt_number = 1,
                              !.caller = caller,
                              !.acquired = limiters_acquired(caller)]
    /\ UNCHANGED <<export_vars, bucket, parsed, op>>

\* One attempt of the retrying wrapper: the body runs, then the wrapper
\* decides as tenacity does: a result is returned; an exception the
\* classifier does not retry is raised; when stop holds the
\* retry_error_callback is called and its return value is returned (the
\* callback takes precedence over reraise=True); otherwise the wrapper sleeps
\* for wait_exponential plus wait_random seconds.
FetchAttempt(r, jitter) ==
    /\ call.pc = "attempt"
    /\ LET exc == body(r)
           c == [call EXCEPT !.login = r.login, !.status_code = r.status, !.jitter = 0]
       IN call' = IF exc = NoExc
                  THEN [c EXCEPT !.pc = "returned", !.exc = NoExc, !.value = "text"]
                  ELSE IF ~retry(call.helper, exc)
                  THEN [c EXCEPT !.pc = "raised", !.exc = exc]
                  ELSE IF stop(call.attempt_number)
                  THEN [c EXCEPT !.pc = "returned", !.exc = exc,
                                 !.value = log_final_retry_error(exc)]
                  ELSE [c EXCEPT !.pc = "sleeping", !.exc = exc,
                                 !.waits = Append(@, wait_exponential(call.attempt_number)),
                                 !.jitter = jitter]
    /\ UNCHANGED <<export_vars, bucket, parsed, op>>

\* The backoff wait ends and the next attempt begins
FetchBackoff ==
    /\ call.pc = "sleeping"
    /\ call' = [call EXCEPT !.pc = "attempt", !.attempt_number = @ + 1,
                            !.sleeps = @ + 1, !.jitter = 0]
    /\ UNCHANGED <<export_vars, bucket, parsed, op>>

\* No invocation of the exporter has begun and there is no state file
ExportIdle ==
    /\ disk = Absent
    /\ files = {}
    /\ state = FreshState
    /\ pc = "stopped"
    /\ concurrency = 1
    /\ MAX_PAGES_TO_SCRAPE_SESSION = DefaultMaxPagesToScrapeSession
    /\ max_page_num = 1
    /\ task = NoTasks
    /\ lock = LockFree
    /\ pages_scraped_this_call = 0
    /\ pending = <<>>
    /\ results = <<>>
    /\ summary = NoSummary
    /\ runs = 0
    /\ acked = NoSets
    /\ loaded = NoSets
    /\ done_at_pending = {}
    /\ first_page = "none"
    /\ rerun = FALSE
    /\ at_start = NoSets
    /\ refresh_wids_list = {}
    /\ resumed = FALSE

FetchInit ==
    /\ ExportIdle
    /\ call = NoCall
    /\ bucket = NewBucket
    /\ parsed = NoParse
    /\ op = NoOps

FetchNext ==
    \/ \E helper \in Helpers, caller \in Callers \cup {"none"} : FetchCall(helper, caller)
    \/ \E r \in AttemptResults, jitter \in wait_random : FetchAttempt(r, jitter)
    \/ FetchBackoff

FetchSpec == FetchInit /\ [][FetchNext]_vars

\* ------------------------------------------------------- one RateLimiter
\* acquire(), as far as its sleep: the lock is taken, the tokens are
\* refilled for the time since last_update, last_update becomes now; with
\* a token there the call takes it and returns, else it sleeps holding
\* the lock
LimiterAcquire ==
    /\ bucket.pc = "free"
    /\ Len(bucket.completed) < MaxAcquisitions
    /\ LET tokens == refill(bucket)
       IN bucket' = IF tokens < 1
                    THEN [bucket EXCEPT !.tokens = tokens, !.last_update = bucket.now,
                                        !.pc = "sleeping", !.sleep = 1 - tokens]
                    ELSE [bucket EXCEPT !.tokens = tokens - 1, !.last_update = bucket.now,
                                        !.completed = Append(@, bucket.now)]
    /\ UNCHANGED <<export_vars, call, parsed, op>>

\* the sleep of acquire() ends: tokens = 1, tokens -= 1, the lock is released
LimiterWake ==
    /\ bucket.pc = "sleeping"
    /\ bucket' = [bucket EXCEPT !.now = @ + bucket.sleep, !.tokens = 1 - 1,
                                !.pc = "free", !.sleep = 0,
                                !.completed = Append(@, bucket.now + bucket.sleep)]
    /\ UNCHANGED <<export_vars, call, parsed, op>>

\* a tick passes in which no caller asks for a token
LimiterIdle ==
    /\ bucket.pc = "free"
    /\ bucket.idle < MaxIdleTicks
    /\ Len(bucket.completed) < MaxAcquisitions
    /\ bucket' = [bucket EXCEPT !.now = @ + 1, !.idle = @ + 1]
    /\ UNCHANGED <<export_vars, call, parsed, op>>

LimiterInit ==
    /\ ExportIdle
    /\ call = NoCall
    /\ bucket = NewBucket
    /\ parsed = NoParse
    /\ op = NoOps

LimiterNext ==
    \/ LimiterAcquire
    \/ LimiterWake
    \/ LimiterIdle

LimiterSpec == LimiterInit /\ [][LimiterNext]_vars

\* ------------------------------------------------- one detail page parsed
\* The detail page the site will serve has one more row in its table
PageRow(row) ==
    /\ parsed.pc = "idle"
    /\ Len(parsed.page.rows) < MaxRows
    /\ parsed' = [parsed EXCEPT !.page.rows = Append(@, row), !.page.has_table = TRUE]
    /\ UNCHANGED <<export_vars, call, bucket, op>>

\* scrape_workout has fetched the detail page and parses it
ParsePage(date_ok, exercise_type, has_table) ==
    /\ parsed.pc = "idle"
    /\ parsed.page.rows # <<>> => has_table
    /\ LET page == [date_ok |-> date_ok, exercise_type |-> exercise_type,
                    has_table |-> has_table, rows |-> parsed.page.rows]
       IN parsed' = [pc |-> "done", page |-> page, out |-> parse_workout(page)]
    /\ UNCHANGED <<export_vars, call, bucket, op>>

ParseInit ==
    /\ ExportIdle
    /\ call = NoCall
    /\ bucket = NewBucket
    /\ parsed = NoParse
    /\ op = NoOps

ParseNext ==
    \/ \E row \in Rows : PageRow(row)
    \/ \E date_ok \in BOOLEAN, exercise_type \in ExerciseTypes, has_table \in BOOLEAN :
          ParsePage(date_ok, exercise_type, has_table)

ParseSpec == ParseInit /\ [][ParseNext]_vars

\* Invocations of `export` repeated without --force on a listing of
\* max_page_num pages, none of them interrupted, with every listing request
\* answered by the page.  The state file, if there is one, was left by earlier
\* invocations on the same listing.  The event loop resumes every task that
\* can go on and the operator runs the command again: a step that stays
\* possible is taken.
ResumeInit ==
    /\ Init
    /\ disk.kind # "not_a_document"
    /\ load(disk).processed_workout_list_pages \subseteq 1..max_page_num

ResumeNext ==
    \/ \E refresh_all \in BOOLEAN, refresh_wids \in RefreshWidsChoices,
          conc \in 1..MaxConcurrency :
          CliExport(FALSE, refresh_all, refresh_wids, conc)
    \/ SaveOpen
    \/ SaveWrite
    \/ FirstPage("ok")
    \/ \E p \in Pages : PageEnter(p)
    \/ \E p \in Pages : PageFetched(p, "ok")
    \/ \E p \in Pages : PageSaveOpen(p)
    \/ \E p \in Pages : PageSaveWrite(p)
    \/ GatherDone
    \/ ExportOne

ResumeSpec == ResumeInit /\ [][ResumeNext]_vars /\ WF_vars(ResumeNext)

\* ------------------------------------------- calls on one ExportState
\* what the calls on the store leave alone
store_frame == <<files, pc, concurrency, MAX_PAGES_TO_SCRAPE_SESSION, max_page_num,
                 task, pages_scraped_this_call, pending, results, summary, runs,
                 acked, loaded, done_at_pending, first_page, rerun, at_start,
                 refresh_wids_list, resumed, call, bucket, parsed>>

\* A task calls the store.  The processing step of a listing page first adds
\* the identifiers and the page to the sets of the object.  Then the lock is
\* asked for: a caller that gets it at once makes the change of mark_done /
\* add_discovered and enters _save_content; another caller queues.
StoreCall(t, c) ==
    /\ op.task[t].pc \in {"idle", "returned"}
    /\ op.calls < MaxStoreCalls
    /\ LET s1 == IF c.name = "page" THEN merge_page(state, CHOOSE p \in c.arg : TRUE)
                 ELSE state
       IN IF can_acquire(lock, op.waiters)
          THEN /\ lock' = t
               /\ state' = mutate(s1, c.name, c.arg)
               /\ op' = [op EXCEPT !.task[t] = [name |-> c.name, arg |-> c.arg,
                                                pc |-> "locked"],
                                   !.calls = @ + 1]
          ELSE /\ lock' = lock
               /\ state' = s1
               /\ op' = [op EXCEPT !.task[t] = [name |-> c.name, arg |-> c.arg,
                                                pc |-> "waiting"],
                                   !.waiters = Append(@, t),
                                   !.calls = @ + 1]
    /\ UNCHANGED <<disk, store_frame>>

\* The lock was released and the first waiter gets it, makes its change and
\* enters _save_content
StoreAcquire(t) ==
    /\ op.task[t].pc = "waiting"
    /\ lock = LockFree
    /\ Head(op.waiters) = t
    /\ lock' = t
    /\ state' = mutate(state, op.task[t].name, op.task[t].arg)
    /\ op' = [op EXCEPT !.task[t].pc = "locked", !.waiters = Tail(@)]
    /\ UNCHANGED <<disk, store_frame>>

\* _save_content: aiofiles.open(path, "w") has truncated the file
StoreOpen(t) ==
    /\ op.task[t].pc = "locked"
    /\ disk' = Truncated
    /\ op' = [op EXCEPT !.task[t].pc = "opened"]
    /\ UNCHANGED <<state, lock, store_frame>>

\* _save_content: json.dumps(self.to_dict()) is evaluated and written
StoreWrite(t) ==
    /\ op.task[t].pc = "opened"
    /\ disk' = to_dict(state)
    /\ op' = [op EXCEPT !.task[t].pc = "written"]
    /\ UNCHANGED <<state, lock, store_frame>>

\* the file is closed, _save_content returns, the lock is released and the
\* call returns
StoreReturn(t) ==
    /\ op.task[t].pc = "written"
    /\ lock' = release(lock)
    /\ op' = [op EXCEPT !.task[t].pc = "returned"]
    /\ UNCHANGED <<state, disk, store_frame>>

StoreInit ==
    /\ ExportIdle
    /\ call = NoCall
    /\ bucket = NewBucket
    /\ parsed = NoParse
    /\ op = NoOps

StoreNext ==
    \/ \E t \in StoreTasks, c \in StoreCalls : StoreCall(t, c)
    \/ \E t \in StoreTasks : StoreAcquire(t)
    \/ \E t \in StoreTasks : StoreOpen(t)
    \/ \E t \in StoreTasks : StoreWrite(t)
    \/ \E t \in StoreTasks : StoreReturn(t)

StoreSpec == StoreInit /\ [][StoreNext]_vars

Next ==
    \/ \E force \in BOOLEAN, refresh_all \in BOOLEAN,
          refresh_wids \in RefreshWidsChoices, conc \in 1..MaxConcurrency :
          CliExport(force, refresh_all, refresh_wids, conc)
    \/ SaveOpen
    \/ SaveWrite
    \/ \E outcome \in FirstPageOutcomes : FirstPage(outcome)
    \/ \E p \in Pages : PageEnter(p)
    \/ \E p \in Pages, outcome \in PageOutcomes : PageFetched(p, outcome)
    \/ \E p \in Pages : PageSaveOpen(p)
    \/ \E p \in Pages : PageSaveWrite(p)
    \/ GatherDone
    \/ ExportOne
    \/ Interrupt

Spec == Init /\ [][Next]_vars

\* One invocation that is not interrupted, begun from any of the state
\* files an earlier invocation may have left.  The event loop resumes every
\* task that can go on, and every request returns or fails within its
\* timeout: a step that stays possible is taken.
LiveNext ==
    \/ \E force \in BOOLEAN, refresh_all \in BOOLEAN,
          refresh_wids \in RefreshWidsChoices, conc \in 1..MaxConcurrency :
          runs = 0 /\ CliExport(force, refresh_all, refresh_wids, conc)
    \/ SaveOpen
    \/ SaveWrite
    \/ \E outcome \in FirstPageOutcomes : FirstPage(outcome)
    \/ \E p \in Pages : PageEnter(p)
    \/ \E p \in Pages, outcome \in PageOutcomes : PageFetched(p, outcome)
    \/ \E p \in Pages : PageSaveOpen(p)
    \/ \E p \in Pages : PageSaveWrite(p)
    \/ GatherDone
    \/ ExportOne

LiveSpec == Init /\ [][LiveNext]_vars /\ WF_vars(LiveNext)


\* ================================================================ claims
FailedWids(rs) == {rs[i].wid : i \in {j \in 1..Len(rs) : rs[j].status # "ok"}}

\* C1: the state a run loads contains every processed page, discovered
\* identifier and completed identifier whose persist call had returned
\* before the process was interrupted, wherever the interruption fell.
C1_PersistedProgressSurvivesInterruption ==
    pc = "init_save" => Contains(loaded, acked)

\* C2: done_wids is a subset of discovered_wids in memory and in the
\* persisted document, after every mutation and at the end of every run.
C2_DoneSubsetOfDiscovered ==
    /\ state.done_wids \subseteq state.discovered_wids
    /\ disk.kind = "doc" => Range(disk.done_wids) \subseteq Range(disk.discovered_wids)

\* C2 witness: a run with failed exports has ended on a state that has
\* completed identifiers, in memory and in the document
C2_Witness ==
    /\ pc = "stopped"
    /\ summary.status = "ok"
    /\ summary.failed # <<>>
    /\ state.done_wids # {}
    /\ disk.kind = "doc"
    /\ disk.done_wids # <<>>

\* C3: an identifier that mark_done has added in this run has a result of
\* status "ok" and its artifact is on disk, and an identifier whose task
\* failed is not in done_wids in that run.
C3_MarkDoneOnlyAfterArtifacts ==
    pc \in ExportPcs =>
        /\ FailedWids(results) \cap state.done_wids = {}
        /\ \A w \in state.done_wids \ done_at_pending :
              /\ Tcx(w) \in files
              /\ \E i \in 1..Len(results) :
                    results[i].wid = w /\ results[i].status = "ok"

\* C3 witness: the export loop has ended with a failed identifier, which is
\* not in done_wids
C3_Witness ==
    /\ pc = "final_save"
    /\ FailedWids(results) # {}
    /\ FailedWids(results) \cap state.done_wids = {}

\* C4: a run that reaches its summary has exported every pending identifier:
\* exported is the pending list, failed is empty and every pending identifier
\* is in done_wids.  (run_one_wid issues no detail request, so "every detail
\* fetch, parse and write succeeds" excludes no behaviour.)
C4_AllPendingExported ==
    (pc = "stopped" /\ summary.status = "ok") =>
        /\ summary.exported = pending
        /\ summary.failed = <<>>
        /\ Range(pending) \subseteq state.done_wids

\* C5: a failed identifier is in the failed list of the summary with a
\* reason, every pending identifier has been attempted when the run returns,
\* and no run ends by an exception raised out of the export loop.
C5_FailureRecordedRunContinues ==
    /\ summary.status # "raised"
    /\ (pc = "stopped" /\ summary.status = "ok") =>
            /\ Len(results) = Len(pending)
            /\ \A w \in FailedWids(results) :
                 \E j \in 1..Len(summary.failed) :
                    /\ summary.failed[j].wid = w
                    /\ summary.failed[j].error # "None"

\* C5 witness: a run has returned its summary with two failed identifiers:
\* the one after the first failure was still attempted
C5_Witness ==
    /\ pc = "stopped"
    /\ summary.status = "ok"
    /\ Len(summary.failed) >= 2

\* C6: a run that applies no reset and follows a run that returned its
\* summary with every listing page processed returns status empty (the
\* listing is the same in both runs).
C6_SecondRunIsEmpty ==
    (pc = "stopped" /\ rerun /\ summary.status \in {"ok", "empty"}) =>
        summary.status = "empty"

\* C7: pending is discovered_wids minus done_wids as they stood when
\* discovery returned, in strictly descending order, and the tasks are
\* started in the order of pending.
C7_PendingIsDifferenceDescending ==
    pc \in ExportPcs =>
        /\ Range(pending) = state.discovered_wids \ done_at_pending
        /\ \A i, j \in 1..Len(pending) : i < j => pending[i] > pending[j]
        /\ Len(results) <= Len(pending)
        /\ \A i \in 1..Len(results) : results[i].wid = pending[i]

\* C7 witness: the export loop has run over two identifiers while other
\* identifiers were complete
C7_Witness ==
    /\ pc = "final_save"
    /\ Len(results) >= 2
    /\ done_at_pending # {}

\* C8: an identifier that is in done_wids when pending is computed is not
\* handed to a task in that run, and no identifier is handed to two tasks.
C8_DoneNeverProcessedAgain ==
    pc \in ExportPcs =>
        /\ ResultWids(results) \cap done_at_pending = {}
        /\ \A i, j \in 1..Len(results) :
              results[i].wid = results[j].wid => i = j

\* C8 witness: a task has run in an invocation that began with completed
\* identifiers
C8_Witness ==
    /\ pc \in ExportPcs
    /\ results # <<>>
    /\ done_at_pending # {}

\* C9: when the request for page 1 fails or page 1 has no pagination
\* controls, the run has ended fatally: no pending list, no export task, no
\* page task, and the three sets are those that were loaded, in memory and
\* in the document.
C9_FirstPageFailureIsFatal ==
    first_page \in {"fetch_failed", "no_pagination"} =>
        /\ pc = "stopped"
        /\ summary.status = "fatal"
        /\ pending = <<>>
        /\ results = <<>>
        /\ task = NoTasks
        /\ Sets(state) = loaded
        /\ Sets(load(disk)) = loaded

\* C9 witness: a run over a state with completed identifiers has ended on a
\* page 1 without pagination controls
C9_Witness ==
    /\ first_page = "no_pagination"
    /\ summary.status = "fatal"
    /\ loaded.done_wids # {}

AllFetchesSucceeded ==
    \A p \in 1..max_page_num : task[p] \notin {"failed", "skipped_404"}

\* C10 as stated: from a fresh state, when every page fetch succeeds,
\* discover returns the identifiers of all pages and
\* processed_workout_list_pages is {1..N}.
C10_DiscoverReturnsUnion ==
    (pc = "post_save" /\ loaded = NoSets /\ AllFetchesSucceeded) =>
        /\ state.discovered_wids = WidsOfPages(1..max_page_num)
        /\ state.processed_workout_list_pages = 1..max_page_num

\* C10 amended: the same, for a listing whose page count N does not exceed
\* the session cap max_pages_to_scrape_session.
C10_DiscoverReturnsUnionWithinCap ==
    (/\ pc = "post_save"
     /\ loaded = NoSets
     /\ AllFetchesSucceeded
     /\ max_page_num <= MAX_PAGES_TO_SCRAPE_SESSION) =>
        /\ state.discovered_wids = WidsOfPages(1..max_page_num)
        /\ state.processed_workout_list_pages = 1..max_page_num

\* C10 witness: discover has returned from a fresh state after two
\* concurrent page tasks, within the cap
C10_Witness ==
    /\ pc = "post_save"
    /\ loaded = NoSets
    /\ max_page_num >= 2
    /\ concurrency >= 2
    /\ max_page_num <= MAX_PAGES_TO_SCRAPE_SESSION
    /\ \A p \in 1..max_page_num : task[p] = "done"
    /\ state.processed_workout_list_pages = 1..max_page_num

C14_ScopedResetIsExact ==
    (pc = "reset_save" /\ refresh_wids_list # {}) =>
        /\ state.done_wids = at_start.done_wids \ refresh_wids_list
        /\ \A w \in refresh_wids_list : Tcx(w) \notin files
        /\ \A w \in at_start.done_wids \ refresh_wids_list : Tcx(w) \in files

\* C15: the scoped reset and the refresh-all reset leave discovered_wids and
\* processed_workout_list_pages as they were loaded, in memory while the
\* reset is at its save and in the document it has written.
C15_ResetsKeepDiscoveryState ==
    /\ pc = "reset_save" =>
            /\ state.discovered_wids = at_start.discovered_wids
            /\ state.processed_workout_list_pages = at_start.processed_workout_list_pages
    /\ (pc = "init_save" /\ disk.kind = "doc") =>
            /\ Range(disk.discovered_wids) = at_start.discovered_wids
            /\ Range(disk.processed_workout_list_pages) =
                    at_start.processed_workout_list_pages

\* C15 witness: a reset has written its document: completed identifiers
\* are gone from it, pages and discovered identifiers are in it
C15_Witness ==
    /\ pc = "init_save"
    /\ disk.kind = "doc"
    /\ Range(disk.done_wids) # at_start.done_wids
    /\ disk.discovered_wids # <<>>
    /\ disk.processed_workout_list_pages # <<>>

\* C16: no invocation ends by an exception raised by ExportState.load, and
\* a state file that is not a complete state document loads as a fresh
\* state with three empty sets.
C16_LoadNeverFails ==
    /\ summary.status # "load_raised"
    /\ (pc = "init_save" /\ lock = LockFree /\ disk.kind # "doc") => loaded = NoSets

ClientError(exc) ==
    /\ exc.type = "HTTPStatusError"
    /\ exc.status >= 400 /\ exc.status < 500
    /\ exc.status \notin {401, 403, 429}

Retryable(exc) ==
    \/ exc.type = "HTTPStatusError" /\ (exc.status = 429 \/ exc.status >= 500)
    \/ exc.type \in {"ConnectError", "ReadTimeout"}

\* C17: in a call of fetch, an attempt that fails with status 401 or 403
\* ends the call with that failure raised to the caller: no wait and no
\* attempt follows it, so a call whose first response is 401 or 403 has
\* made one attempt and has not waited.
C17_AuthFailureNotRetried ==
    (/\ call.helper = "fetch"
     /\ call.exc.type = "HTTPStatusError"
     /\ call.exc.status \in {401, 403}) =>
        /\ call.pc = "raised"
        /\ call.sleeps = call.attempt_number - 1
        /\ call.value = "none"

\* C17 witness: a call of fetch has ended on a 403 at its first attempt
C17_Witness ==
    /\ call.helper = "fetch"
    /\ call.pc = "raised"
    /\ call.exc = Exc("HTTPStatusError", 403)
    /\ call.attempt_number = 1
    /\ call.sleeps = 0

\* C18: in both helpers an attempt that fails with a 4xx status other than
\* 401, 403 and 429, or with an exception of a type the classifier does not
\* know, ends the call with that failure raised, and the two classifiers
\* decide alike on the failure an attempt has met.
C18_ClientErrorsTerminalInBothHelpers ==
    /\ (ClientError(call.exc) \/ call.exc.type = "ValueError") => call.pc = "raised"
    /\ call.exc # NoExc =>
          (should_retry_fetch(call.exc) = core_should_retry_fetch(call.exc))

\* C19: an attempt that fails with 429, a status of 500 or more, or a
\* transport or timeout error is followed by a wait and another attempt as
\* long as fewer than 10 attempts were made; no call makes more than 10
\* attempts, and no wait follows the 10th.
C19_RetriedUpToTenAttempts ==
    /\ call.attempt_number <= MaxAttempts
    /\ (Retryable(call.exc) /\ call.attempt_number < MaxAttempts) =>
            call.pc \in {"sleeping", "attempt"}
    /\ (Retryable(call.exc) /\ call.attempt_number = MaxAttempts) =>
            call.pc # "sleeping"

\* C19 witness: a call of fetch has ended after 10 attempts and 9 waits on
\* a 429
C19_Witness ==
    /\ call.helper = "fetch"
    /\ call.attempt_number = MaxAttempts
    /\ call.sleeps = MaxAttempts - 1
    /\ call.pc \in {"returned", "raised"}
    /\ call.exc = Exc("HTTPStatusError", 429)

\* C20: a call of fetch that has ended after its 10th attempt failed with a
\* retryable failure has raised that failure to its caller; it has not
\* returned a value.
C20_ExhaustionSurfacesLastFailure ==
    (/\ call.helper = "fetch"
     /\ call.attempt_number = MaxAttempts
     /\ call.pc \in {"returned", "raised"}
     /\ Retryable(call.exc)) =>
        /\ call.pc = "raised"
        /\ call.value = "none"

\* C21: an attempt of either helper whose final response is the login page
\* (and not the page asked for) ends the call with an HTTPStatusError of
\* status 401 raised to the caller, whatever status the response carries:
\* no text is returned, and no wait and no attempt follows.
C21_LoginRedirectIsAuthFailure ==
    call.login =>
        /\ call.pc = "raised"
        /\ call.exc = Exc("HTTPStatusError", 401)
        /\ call.value = "none"
        /\ call.sleeps = call.attempt_number - 1

\* C21 witness: the first attempt of fetch ended on the login page with the
\* response carrying status 500, and the call has raised
C21_Witness ==
    /\ call.helper = "fetch"
    /\ call.login
    /\ call.status_code = 500
    /\ call.attempt_number = 1
    /\ call.pc = "raised"

\* C22: when 10 acquisitions are asked of a new RateLimiter(rate=3, per=1.0)
\* at the same instant (no tick passes without a caller waiting), the first
\* 3 complete at that instant, and no window of one second (3 ticks) holds
\* more than 3 completed acquisitions.
C22_BurstThenAtMostRatePerWindow ==
    bucket.idle = 0 =>
        /\ \A i \in 1..Min({LimiterRate, Len(bucket.completed)}) : bucket.completed[i] = 0
        /\ \A t \in 0..bucket.now :
              Cardinality({i \in 1..Len(bucket.completed) :
                              /\ bucket.completed[i] >= t
                              /\ bucket.completed[i] < t + LimiterRate}) <= LimiterRate

\* C23: a request for a detail page is made after a token was acquired from
\* the limiter of the detail pages (the limiter run_full_export makes); a
\* request for a listing page is made after a token was acquired from the
\* faster limiter of the listing pages and without acquiring from the
\* limiter of the detail pages.
C23_RequestsThrottledByTheirOwnLimiter ==
    /\ call.caller = "scrape_workout" => "rate_limiter" \in call.acquired
    /\ call.caller \in {"scrape_all_wids_from_workout_list_pages",
                        "fetch_and_process_page"} =>
          /\ "page_rate_limiter" \in call.acquired
          /\ "rate_limiter" \notin call.acquired

\* C24: the number of export tasks inside the semaphore is never more than
\* `concurrency`.
C24_AtMostConcurrencyExportTasks ==
    /\ in_flight >= 0
    /\ in_flight <= concurrency

\* C24 witness: with concurrency 1 and two identifiers pending, the first
\* export task is in flight and the second has not been started
C24_Witness ==
    /\ pc = "exporting"
    /\ concurrency = 1
    /\ Len(pending) >= 2
    /\ results = <<>>
    /\ in_flight = 1

\* C25: a run that got past discovery with identifiers pending ends (unless
\* the process is killed) by returning a summary; in it every pending
\* identifier is in exactly one of exported and failed, the two lists are
\* together as long as total, total is the number of pending identifiers,
\* and every failed entry has a reason.
C25_SummaryPartitionsPending ==
    /\ summary.status # "raised"
    /\ (pc = "stopped" /\ pending # <<>>) => summary.status = "ok"
    /\ (pc = "stopped" /\ summary.status = "ok") =>
          LET exported == Range(summary.exported)
              failed == {summary.failed[j].wid : j \in 1..Len(summary.failed)}
          IN /\ exported \cup failed = Range(pending)
             /\ exported \cap failed = {}
             /\ Len(summary.exported) + Len(summary.failed) = summary.total
             /\ summary.total = Len(pending)
             /\ \A j \in 1..Len(summary.failed) : summary.failed[j].error # "None"

\* C25 witness: a run has returned the summary of three pending
\* identifiers, with failures among them
C25_Witness ==
    /\ pc = "stopped"
    /\ summary.status = "ok"
    /\ summary.total = 3
    /\ Len(summary.failed) >= 1

\* a lock of the state store is held only by the task that is inside its
\* persist
LockHeldByItsWriter ==
    /\ lock = MainCoroutine => pc \in MainSavePcs
    /\ lock \in Pages => task[lock] = "saving"

C28_ProcessedPagesWithinSessionCap ==
    /\ pages_scraped_this_call <= MAX_PAGES_TO_SCRAPE_SESSION
    /\ Cardinality({p \in Pages : task[p] \in {"merged", "saving", "done"}})
          <= MAX_PAGES_TO_SCRAPE_SESSION

\* a row outside <tfoot> with its two cells, whose distance or duration
\* parses to something other than 0
NonZeroRow(row) ==
    /\ ~row.tfoot
    /\ row.cols >= 2
    /\ (miles(row.dist_txt) # 0 \/ parse_time(row.dur_txt) # 0)

\* C27: a record made from a detail page has at least one segment; when the
\* page has no table, or no row of the table (outside its footer, with a
\* distance and a duration cell) parses to a distance or a duration other
\* than 0, the record has exactly one segment, of distance 0 and duration 0;
\* otherwise its segments are those rows in their order, each with the
\* distance and duration parsed from it, none left out.
C27_ZeroRecordGetsOneZeroSegment ==
    (parsed.pc = "done" /\ ~parsed.out.raised) =>
        LET rows == parsed.page.rows
            segs == parsed.out.workout.segments
            kept == {i \in 1..Len(rows) : NonZeroRow(rows[i])}
        IN /\ Len(segs) >= 1
           /\ (~parsed.page.has_table \/ kept = {}) => segs = <<WorkoutSegment(0, 0)>>
           /\ kept # {} =>
                 /\ Len(segs) = Cardinality(kept)
                 /\ \A i \in kept :
                       segs[Cardinality({k \in kept : k <= i})] =
                          WorkoutSegment(miles(rows[i].dist_txt),
                                         parse_time(rows[i].dur_txt))

\* C27 witness: a page with a table of two rows, "0 miles" in "0:00" and an
\* empty distance with the duration "45", parsed into a record of one
\* segment of distance 0 and duration 0
C27_Witness ==
    /\ parsed.pc = "done"
    /\ ~parsed.out.raised
    /\ parsed.page.has_table
    /\ parsed.page.rows = <<Row(FALSE, 5, DistText(TRUE, 0, "miles"), DurText(TRUE, <<0, 0>>)),
                            Row(FALSE, 5, EmptyText, DurText(TRUE, <<45>>))>>
    /\ parsed.out.workout.segments = <<WorkoutSegment(0, 0)>>

\* C29: a detail page whose date is valid gives a record, and the record's
\* exercise type is one of Running, Biking and Other.
C29_ExerciseTypeInClosedSet ==
    (parsed.pc = "done" /\ parsed.page.date_ok) =>
        /\ ~parsed.out.raised
        /\ parsed.out.workout.exercise_type \in SportTypes

\* C30 as stated: every wait of a call (jitter aside) is between 15 and 60
\* seconds, and a wait below 60 is followed by a longer one.
C30_WaitsStrictlyIncreaseToCap ==
    /\ \A i \in 1..Len(call.waits) : call.waits[i] >= WaitMin /\ call.waits[i] <= WaitMax
    /\ \A i \in 1..(Len(call.waits) - 1) :
          call.waits[i] < WaitMax => call.waits[i + 1] > call.waits[i]

\* C30, amended: every wait of a call (jitter aside) is between 15 and 60
\* seconds, no wait is shorter than the one before it, the jitter adds
\* between 0 and 5 seconds, and the waits after the 1st..9th failed attempt
\* are 15, 15, 15, 15, 16, 32, 60, 60, 60 seconds.
C30_WaitsNeverDecreaseWithinBounds ==
    /\ \A i \in 1..Len(call.waits) : call.waits[i] >= WaitMin /\ call.waits[i] <= WaitMax
    /\ \A i \in 1..(Len(call.waits) - 1) : call.waits[i + 1] >= call.waits[i]
    /\ call.jitter \in 0..JitterMax
    /\ \A i \in 1..Len(call.waits) :
          call.waits[i] = <<15, 15, 15, 15, 16, 32, 60, 60, 60>>[i]

\* C30 witness: a call is in its 9th wait
C30_Witness ==
    /\ call.pc = "sleeping"
    /\ Len(call.waits) = MaxAttempts - 1
    /\ call.waits[5] = 16
    /\ call.waits[9] = WaitMax

\* ------------------------------------------------- the lock of the store
\* the sets in memory are ahead of (or differ from) what the state file holds
Unpersisted == Sets(state) # Sets(load(disk))

\* C31: every change of done_wids, discovered_wids and
\* processed_workout_list_pages is made inside the locked section of a store
\* operation that also persists it: a page task whose identifiers and page
\* number are in memory and not yet in its persist holds the lock, mark_done
\* holds it from the change to the end of its persist, and while the running
\* process has sets in memory that differ from the state file some store
\* operation holds the lock.
C31_MutationsUnderTheLock ==
    /\ \A p \in Pages : task[p] = "merged" => lock = p
    /\ pc = "mark_save" => lock = MainCoroutine
    /\ (pc # "stopped" /\ Unpersisted) => lock # LockFree

\* the tasks inside _save_content: from the call that follows the taking of
\* the lock to the closing of the file
InSaveContent == {t \in StoreTasks : op.task[t].pc \in {"locked", "opened", "written"}}

\* C32: whatever the interleaving of concurrent save, mark_done and
\* add_discovered calls (and page steps) on one ExportState, at most one task
\* is inside _save_content, it is the holder of the lock, and when no task is
\* inside it after a persist has returned the state file is one complete
\* document.
C32_OneTaskInsideSaveContent ==
    /\ Cardinality(InSaveContent) <= 1
    /\ \A t \in InSaveContent : lock = t
    /\ (InSaveContent = {} /\ \E t \in StoreTasks : op.task[t].pc = "returned") =>
          disk.kind = "doc"

\* C32 witness: one task is inside the file write with the file truncated
\* while another call waits for the lock, after a first persist returned
C32_Witness ==
    /\ \E t \in StoreTasks : op.task[t].pc = "opened"
    /\ \E t \in StoreTasks : op.task[t].pc = "waiting"
    /\ op.calls = MaxStoreCalls
    /\ disk = Truncated

\* what a returned call was to add is in the document
InDocument(c, d) ==
    /\ d.kind = "doc"
    /\ c.name = "mark_done" => c.arg \subseteq Range(d.done_wids)
    /\ c.name = "add_discovered" => c.arg \subseteq Range(d.discovered_wids)
    /\ c.name = "page" =>
          /\ c.arg \subseteq Range(d.processed_workout_list_pages)
          /\ WidsOfPages(c.arg) \subseteq Range(d.discovered_wids)

\* no call on the store is in progress
StoreQuiet == \A t \in StoreTasks : op.task[t].pc \in {"idle", "returned"}

\* C33: at the step in which mark_done, add_discovered or the processing
\* step of a listing page returns, the state file is a document that holds
\* what the call added; and whenever no call on the store is in progress the
\* three sets of the state file are those in memory.
C33_PersistedBeforeReturn ==
    /\ [][\A t \in StoreTasks :
             (op.task[t].pc # "returned" /\ op'.task[t].pc = "returned") =>
                InDocument(op'.task[t], disk')]_vars
    /\ [](StoreQuiet => Sets(load(disk)) = Sets(state))

\* C33 witness: mark_done, add_discovered and a page step have been called
\* and all have returned, with their changes in memory
C33_Witness ==
    /\ StoreQuiet
    /\ op.calls = MaxStoreCalls
    /\ state.done_wids # {}
    /\ state.processed_workout_list_pages # {}
    /\ \E t \in StoreTasks : op.task[t].name = "add_discovered"

\* the state file is a document whose processed pages are all the pages of
\* the listing
AllPagesPersisted ==
    /\ disk.kind = "doc"
    /\ Range(disk.processed_workout_list_pages) = 1..max_page_num

\* C34: with a session cap of at least 1 and listing requests that succeed,
\* repeated invocations reach a state file whose
\* processed_workout_list_pages is {1..N}, the pages a capped invocation
\* left being taken up by the next; and no invocation makes a page task for
\* a page that was in processed_workout_list_pages when it loaded the state.
C34_CappedPagesArePickedUpLater ==
    /\ [](\A p \in Pages : task[p] # "none" =>
             p \notin loaded.processed_workout_list_pages)
    /\ <>AllPagesPersisted

\* C34 witness: the first invocation stopped at the cap of one page with
\* page 2 left, and the second has processed page 2 and nothing else
C34_Witness ==
    /\ runs = 2
    /\ MAX_PAGES_TO_SCRAPE_SESSION = SmallSessionCap
    /\ max_page_num = 2
    /\ at_start.processed_workout_list_pages = {1}
    /\ task[1] = "none"
    /\ task[2] = "done"
    /\ AllPagesPersisted

\* every processed page of the sets has its identifiers among the discovered
PagesMerged(sets) ==
    \A p \in sets.processed_workout_list_pages :
        PageWids(p) \subseteq sets.discovered_wids

\* C35: in memory at every point where a task may be suspended, and in every
\* document of the state file, each page of processed_workout_list_pages has
\* all the identifiers of that page in discovered_wids, whatever the
\* interleaving of page tasks, persists, resets and interruptions.
C35_ProcessedPagesAreMerged ==
    /\ PagesMerged(Sets(state))
    /\ disk.kind = "doc" => PagesMerged(Sets(load(disk)))

\* C35 witness: of two concurrent page tasks one is inside its persist with
\* the file truncated, the other has merged its page in memory and waits
C35_Witness ==
    /\ pc = "gather"
    /\ task[1] = "saving"
    /\ task[2] = "merged"
    /\ disk = Truncated
    /\ state.processed_workout_list_pages = {1, 2}

\* C36: a listing page whose request or extraction failed (a 404, another
\* HTTP status error, any other exception) is not in
\* processed_workout_list_pages nor in discovered_pages, has added none of
\* its identifiers to discovered_wids, in memory and in the state file, and
\* is a missing page of an invocation that would load the state file now.
C36_FailedPageIsNotRecorded ==
    \A p \in Pages :
        task[p] \in {"failed", "skipped_404"} =>
            /\ p \notin state.processed_workout_list_pages
            /\ p \notin state.discovered_pages
            /\ PageWids(p) \cap state.discovered_wids = {}
            /\ p \notin load(disk).processed_workout_list_pages
            /\ PageWids(p) \cap load(disk).discovered_wids = {}
            /\ p <= max_page_num
            /\ p \in missing_pages(load(disk), max_page_num)

\* C36 witness: page 2 answered 404 and page 1 failed otherwise, while the
\* run has gone on to persist after discovery
C36_Witness ==
    /\ pc = "post_save"
    /\ disk.kind = "doc"
    /\ task[1] = "failed"
    /\ task[2] = "skipped_404"

\* page tasks that went as far as their listing request
Requested == {p \in Pages : task[p] \in InSemaphore \cup {"done", "skipped_404", "failed"}}

\* listing requests of the running (or last) invocation: the one for page 1
\* that reads the page count, and one per page task that got to its request
listing_requests == (IF first_page = "none" THEN 0 ELSE 1) + Cardinality(Requested)

\* C37: in an invocation whose loaded state holds every page of 1..N in
\* processed_workout_list_pages, once page 1 has given the page count: one
\* listing request has been made and no more are, no page task exists (no
\* identifier is extracted), discovered_wids and
\* processed_workout_list_pages stay as loaded in memory and in every
\* document the invocation writes, and the pending list is made from the
\* loaded discovered_wids.
C37_NothingMissingOneRequest ==
    (first_page = "ok" /\ (1..max_page_num) \subseteq loaded.processed_workout_list_pages) =>
        /\ listing_requests = 1
        /\ task = NoTasks
        /\ state.discovered_wids = loaded.discovered_wids
        /\ state.processed_workout_list_pages = loaded.processed_workout_list_pages
        /\ disk.kind = "doc" =>
              /\ Range(disk.discovered_wids) = loaded.discovered_wids
              /\ Range(disk.processed_workout_list_pages) =
                    loaded.processed_workout_list_pages
        /\ pc \in ExportPcs =>
              Range(pending) = loaded.discovered_wids \ done_at_pending

\* C37 witness: both pages of the listing were loaded as processed, and the
\* invocation has gone from discovery to the export of three identifiers
C37_Witness ==
    /\ pc = "exporting"
    /\ first_page = "ok"
    /\ max_page_num = 2
    /\ loaded.processed_workout_list_pages = {1, 2}
    /\ Len(pending) = 3
    /\ listing_requests = 1

RECURSIVE descending(_)
\* the sequence of identifiers is in strictly descending order
descending(seq) ==
    IF Len(seq) <= 1 THEN TRUE
    ELSE seq[1] > seq[2] /\ descending(Tail(seq))

CompletedBetween(t, w) ==
    Cardinality({i \in 1..Len(bucket.completed) :
                    bucket.completed[i] >= t /\ bucket.completed[i] <= t + w})

\* C39: for every sequence of acquire calls on a limiter of capacity R
\* refilled at R tokens per P seconds, a window of w ticks (w * P / R seconds)
\* holds at most R + w completed acquisitions (R + R*W/P), and the token count
\* stays within 0..R.
C39_AtMostBurstPlusRefillPerWindow ==
    /\ bucket.tokens >= 0
    /\ bucket.tokens <= bucket.rate
    /\ \A t \in 0..bucket.now, w \in 0..bucket.now :
          CompletedBetween(t, w) <= bucket.rate + w

\* the identifiers audit_exports finds: those with a *_wid{wid}_seg{nn}.tcx
\* file in the export directory
found_wids == {f.wid : f \in {g \in files : g.ext = "tcx"}}

\* state.done_wids - found_wids of audit_exports
audit_missing == load(disk).done_wids \ found_wids

\* C40: in every state reached through runs, scoped and full resets and
\* interruptions between any two steps, every identifier of the persisted
\* done_wids has an artifact of the export on disk: audit_exports would report
\* an empty missing list.
C40_DoneWidsHaveArtifacts ==
    /\ audit_missing = {}
    /\ pc # "stopped" => state.done_wids \subseteq found_wids

\* C40 witness: a second invocation has run to its end; the state file
\* holds completed identifiers, fewer than have artifacts on disk (a scoped
\* reset took one out of done_wids)
C40_Witness ==
    /\ runs = 2
    /\ pc = "stopped"
    /\ summary.status = "ok"
    /\ load(disk).done_wids # {}
    /\ load(disk).done_wids # found_wids

====
